---- MODULE Spec2Model ----
(***************************************************************************)
(* A model of the breakfast-embed "store" service (src/src/store/main.rs,  *)
(* src/src/utils.rs, src/src/types.rs): an HNSW map of points to           *)
(* sentences behind a mutex, a SQLite connection with the tables           *)
(* key_value_store and key_label_store, and the snapshot file at           *)
(* HNSW_PATH.  One action per HTTP handler, plus the process restart.      *)
(*                                                                         *)
(* Numbers.  A vector component is an integer counting thousandths, so     *)
(* the distance 0.002 is 2.  All vectors of the model lie on the first     *)
(* axis, so the Euclidean distance is the absolute difference of the       *)
(* first components and no rounding takes place.  Inf stands for the       *)
(* f32 value +infinity (what a JSON number beyond the f32 range, such as   *)
(* 1e39, becomes when serde casts the parsed f64 to f32).                  *)
(***************************************************************************)
EXTENDS Integers, Sequences, FiniteSets, TLC

\* ------------------------------------------------------------------ bounds
\* The dimension of a Point (1536 in the source), scaled down.
D == 2
\* The largest number of points the model lets the HNSW graph hold.
MaxSize == 2
\* The largest number of sentences, vectors or labels in one request body.
MaxBatch == 2

\* --------------------------------------------------------------- constants
\* An f32 component that is +infinity.
Inf == 1000
\* search_closest_points keeps the first 15 results of the search.
TakeCount == 15
\* The distance 0.002 of the insertion gate, in thousandths.
INSERT_THRESHOLD == 2

Sentences == {"a", "b"}

Min(x, y) == IF x < y THEN x ELSE y
Abs(x) == IF x < 0 THEN -x ELSE x

\* A D-dimensional vector on the first axis.
Vec(x) == [i \in 1..D |-> IF i = 1 THEN x ELSE 0]
\* A vector one component short of D.
ShortVec == [i \in 1..(D - 1) |-> 0]

\* The local embedding model: a pure function of the sentence.  "a" and "b"
\* are embedded 0.001 apart.
Embedding(s) == IF s = "a" THEN Vec(0) ELSE Vec(1)

\* The label the clients of the model give a sentence.
LabelOf(s) == IF s = "a" THEN "A" ELSE "B"

\* ------------------------------------------------------------------- Point
IsFinite(x) == x < Inf

\* Point::from_slice: copy_from_slice panics unless the lengths agree.
FromSliceOk(slice) == Len(slice) = D

\* <Point as instant_distance::Point>::distance.  A non-finite component
\* makes the distance non-finite; it is ordered after every finite one.
Distance(p, q) ==
    IF \E i \in 1..D : ~IsFinite(p[i]) \/ ~IsFinite(q[i])
    THEN Inf
    ELSE Abs(p[1] - q[1])

\* impl Serialize for Point with the loop one component short
\* (for i in 0..self.0.len() - 1).
PointSerializeShort(p) == [i \in 1..(Len(p) - 1) |-> IF IsFinite(p[i]) THEN p[i] ELSE -1]

\* impl Serialize for Point, through serde_json: the components as a JSON
\* array; serde_json writes a non-finite f32 as null.
PointSerialize(p) == [i \in 1..Len(p) |-> IF IsFinite(p[i]) THEN p[i] ELSE -1]

\* impl Deserialize for Point: exactly D numbers; null is not a number.
PointDeserializeOk(j) == Len(j) = D /\ \A i \in 1..Len(j) : j[i] >= 0
PointDeserialize(j) == [i \in 1..D |-> j[i]]

\* ----------------------------------------------------------------- HnswMap
\* HnswMap { hnsw, values }: the points of the graph and the payloads, the
\* payload of point i being values[i].
\* Builder::default().build(points, values): one entry per point; it reads
\* values[i] for every point i and panics when there is none.
BuildOk(points, values) == Len(points) <= Len(values)
Build(points, values) == [points |-> points, values |-> SubSeq(values, 1, Len(points))]

EmptyMap == Build(<<>>, <<>>)

\* HnswMap::insert(point, value): one more point in the graph, one more
\* payload.
MapInsert(m, point, value) ==
    [points |-> Append(m.points, point), values |-> Append(m.values, value)]

\* The point ids in the order the search yields them: ascending distance,
\* ties in insertion order.
SearchOrder(m, q) ==
    LET n == Len(m.points)
        dist == [i \in 1..n |-> Distance(m.points[i], q)]
        rank == [i \in 1..n |->
                    Cardinality({j \in 1..n : \/ dist[j] < dist[i]
                                              \/ dist[j] = dist[i] /\ j < i}) + 1]
    IN  [r \in 1..n |-> CHOOSE i \in 1..n : rank[i] = r]

\* HnswMap::search(point).take(n): each item pairs the point's distance
\* with values[pid]; indexing values out of range panics.
SearchTakeOk(m, q, n) ==
    LET order == SearchOrder(m, q)
    IN  \A r \in 1..Min(n, Len(m.points)) : order[r] <= Len(m.values)

SearchTake(m, q, n) ==
    LET order == SearchOrder(m, q)
    IN  [r \in 1..Min(n, Len(m.points)) |->
            [value |-> m.values[order[r]], distance |-> Distance(m.points[order[r]], q)]]

\* serde_json::to_string(&map): the JSON document of the whole map.
MapSerialize(m) ==
    [points |-> [i \in 1..Len(m.points) |-> PointSerialize(m.points[i])],
     values |-> m.values]

\* serde_json::from_reader for the map.  The content of a file is the
\* sequence of the JSON documents in it: none (no bytes) or one.
MapDeserializeOk(content) ==
    /\ Len(content) = 1
    /\ \A i \in 1..Len(content[1].points) : PointDeserializeOk(content[1].points[i])

MapDeserialize(content) ==
    [points |-> [i \in 1..Len(content[1].points) |-> PointDeserialize(content[1].points[i])],
     values |-> content[1].values]

\* ------------------------------------------------------------------ SQLite
\* A table is a function from the key to the rows with that key: none or,
\* the key being the primary key, one.  A row of key_value_store holds the
\* JSON text of a Vec<Vec<f32>> with one element.
NoRows == <<>>
EmptyTable == [s \in Sentences |-> NoRows]

\* INSERT INTO ... VALUES (key, value): a constraint error when the key has a row.
SqlInsertOk(table, key) == table[key] = NoRows
SqlInsert(table, key, value) == [table EXCEPT ![key] = <<value>>]

\* ---------------------------------------------------------------- pipeline
\* One per-sentence response (MyResponse / MyLabelledResponse), with two
\* observations that are not part of the body: whether the embedding model
\* was run for the sentence and whether insert_if_needed was called.
Response(closest, insertion, labs, embedded, inserted) ==
    [searchResult |-> [i \in 1..Len(closest) |-> closest[i].value],
     searchDistance |-> [i \in 1..Len(closest) |-> closest[i].distance],
     insertion |-> insertion,
     labels |-> labs,
     embedded |-> embedded,
     inserted |-> inserted]

\* try_find_in_sqlite with a SELECT that matches no row.
try_find_in_sqlite_miss(kvt, sentence) == <<>>

\* try_find_in_sqlite: Some(the cached vector) or None, as a sequence.
try_find_in_sqlite(kvt, sentence) ==
    IF kvt[sentence] # NoRows THEN <<kvt[sentence][1][1]>> ELSE <<>>

\* try_find_label_in_sqlite: Some([labels, search_distance]) when the
\* sentence has a label row, None otherwise, as a sequence.
try_find_label_in_sqlite(kvt, lt, sentence) ==
    IF lt[sentence] = NoRows
    THEN <<>>
    ELSE <<[labels |-> <<lt[sentence][1]>>,
            search_distance |-> IF kvt[sentence] # NoRows THEN kvt[sentence][1][1] ELSE <<>>]>>

\* search_closest_points building the map from the request on every call
\* (the test map.values.len() == 0 lost).
search_closest_points_rebuild(m, vector, reqVectors, reqSentences) ==
    IF ~FromSliceOk(vector)
    THEN [ok |-> FALSE, map |-> m, closest |-> <<>>]
    ELSE LET m1 == Build(reqVectors, reqSentences)
         IN  IF SearchTakeOk(m1, vector, TakeCount)
             THEN [ok |-> TRUE, map |-> m1, closest |-> SearchTake(m1, vector, TakeCount)]
             ELSE [ok |-> FALSE, map |-> m1, closest |-> <<>>]

\* search_closest_points: builds the map from the request when it has no
\* values, then searches.  [ok, map, closest].
search_closest_points(m, vector, reqVectors, reqSentences) ==
    IF ~FromSliceOk(vector)
    THEN [ok |-> FALSE, map |-> m, closest |-> <<>>]
    ELSE LET m1 == IF Len(m.values) = 0 THEN Build(reqVectors, reqSentences) ELSE m
         IN  IF SearchTakeOk(m1, vector, TakeCount)
             THEN [ok |-> TRUE, map |-> m1, closest |-> SearchTake(m1, vector, TakeCount)]
             ELSE [ok |-> FALSE, map |-> m1, closest |-> <<>>]

\* insert_if_needed building the map from the one pair it is given.
insert_if_needed_replacing(m, vector, sentence) == Build(<<vector>>, <<sentence>>)

\* insert_if_needed: inserts.
insert_if_needed(m, vector, sentence) == MapInsert(m, vector, sentence)

NoResponse == Response(<<>>, "", <<>>, FALSE, FALSE)

\* The outcome of processing one sentence: the state it leaves, "ok", "err"
\* (an Err, answered 500) or "panic", and the response.
Outcome(m, kvt, lt, outcome, response) ==
    [map |-> m, kv |-> kvt, labels |-> lt, outcome |-> outcome, response |-> response]

\* process_sentence(sentence, data, should_insert) with the results of its
\* two calls into the libraries given: embedding is the result of
\* session.embedding(sentence), no vector (Err) or one (Ok), and insertOk
\* says whether map.insert returns Ok.
process_sentence_embedded(m, kvt, lt, sentence, should_insert, embedding, insertOk) ==
    LET found == try_find_in_sqlite(kvt, sentence) IN
    IF found # <<>>
    THEN LET sc == search_closest_points(m, found[1], <<found[1]>>, <<sentence>>)
         IN  IF sc.ok
             THEN Outcome(sc.map, kvt, lt, "ok",
                          Response(sc.closest, "already exists", <<>>, FALSE, FALSE))
             ELSE Outcome(sc.map, kvt, lt, "panic", NoResponse)
    ELSE IF embedding = <<>>
    THEN Outcome(m, kvt, lt, "panic", NoResponse)
    ELSE LET vectors == embedding
             kv1 == IF should_insert THEN SqlInsert(kvt, sentence, vectors) ELSE kvt
             sc == search_closest_points(m, vectors[1], vectors, <<sentence>>)
             m2 == IF should_insert
                   THEN insert_if_needed(sc.map, vectors[1], sentence)
                   ELSE sc.map
         IN  IF should_insert /\ ~SqlInsertOk(kvt, sentence)
             THEN Outcome(m, kvt, lt, "err", NoResponse)
             ELSE IF ~sc.ok
             THEN Outcome(sc.map, kv1, lt, "panic", NoResponse)
             ELSE IF should_insert /\ ~insertOk
             THEN Outcome(sc.map, kv1, lt, "panic", NoResponse)
             ELSE Outcome(m2, kv1, lt, "ok",
                          Response(sc.closest, "inserted", <<>>, TRUE, should_insert))

\* process_sentence(sentence, data, should_insert); embedOk says whether the
\* embedding model answers.
process_sentence(m, kvt, lt, sentence, should_insert, embedOk) ==
    process_sentence_embedded(m, kvt, lt, sentence, should_insert,
                              IF embedOk THEN <<Embedding(sentence)>> ELSE <<>>, TRUE)

\* The labels of the closest points that have a label row, in order.
RECURSIVE closest_labels(_, _, _)
closest_labels(kvt, lt, closest) ==
    IF closest = <<>>
    THEN <<>>
    ELSE LET f == try_find_label_in_sqlite(kvt, lt, closest[1].value)
         IN  (IF f # <<>> THEN f[1].labels ELSE <<>>)
                 \o closest_labels(kvt, lt, Tail(closest))

\* process_sentence_with_label(sentence, label, data, should_insert).
process_sentence_with_label(m, kvt, lt, sentence, label, should_insert, embedOk) ==
    LET found == try_find_label_in_sqlite(kvt, lt, sentence) IN
    IF found # <<>>
    THEN LET sc == search_closest_points(m, found[1].search_distance,
                                         <<found[1].search_distance>>, <<sentence>>)
         IN  IF sc.ok
             THEN Outcome(sc.map, kvt, lt, "ok",
                          Response(sc.closest, "already exists", found[1].labels, FALSE, FALSE))
             ELSE Outcome(sc.map, kvt, lt, "panic", NoResponse)
    ELSE IF ~embedOk
    THEN Outcome(m, kvt, lt, "panic", NoResponse)
    ELSE LET vectors == <<Embedding(sentence)>>
             lt1 == IF should_insert THEN SqlInsert(lt, sentence, label) ELSE lt
             kv1 == IF should_insert THEN SqlInsert(kvt, sentence, vectors) ELSE kvt
             sc == search_closest_points(m, vectors[1], vectors, <<sentence>>)
             m2 == IF should_insert
                   THEN insert_if_needed(sc.map, vectors[1], sentence)
                   ELSE sc.map
         IN  IF should_insert /\ ~SqlInsertOk(lt, sentence)
             THEN Outcome(m, kvt, lt, "err", NoResponse)
             ELSE IF should_insert /\ ~SqlInsertOk(kvt, sentence)
             THEN Outcome(m, kvt, lt1, "err", NoResponse)
             ELSE IF ~sc.ok
             THEN Outcome(sc.map, kv1, lt1, "panic", NoResponse)
             ELSE Outcome(m2, kv1, lt1, "ok",
                          Response(sc.closest, "inserted",
                                   closest_labels(kv1, lt1, sc.closest), TRUE, should_insert))

\* ---------------------------------------------------------------- handlers
\* The state of the service: the map behind arc_mutex_map, the two tables
\* behind arc_conn, and the content of the file at HNSW_PATH.
State(m, kvt, lt, f) == [map |-> m, kv |-> kvt, labels |-> lt, file |-> f]

\* What a handler leaves: the state, the status of the response ("panic":
\* the handler panics and no response is written) and, for 200, the body.
Reply(st, status, results) == [state |-> st, status |-> status, results |-> results]

\* The sentences of one request, one after the other, from position i on:
\* an Err ends the request with 500 and a panic ends it with no response,
\* either way without undoing what the sentences before did.  failAt is
\* the position at which the embedding model fails (0: nowhere).
RECURSIVE run_sentences(_, _, _, _, _, _)
run_sentences(st, sentences, should_insert, failAt, i, results) ==
    IF i > Len(sentences)
    THEN Reply(st, "200", results)
    ELSE LET o == process_sentence(st.map, st.kv, st.labels, sentences[i],
                                   should_insert, i # failAt)
             st1 == State(o.map, o.kv, o.labels, st.file)
         IN  IF o.outcome = "ok"
             THEN run_sentences(st1, sentences, should_insert, failAt, i + 1,
                                Append(results, o.response))
             ELSE Reply(st1, IF o.outcome = "err" THEN "500" ELSE "panic", <<>>)

\* The same for the (sentence, label) pairs of sentences.zip(labels).
RECURSIVE run_labelled(_, _, _, _, _, _, _)
run_labelled(st, sentences, labs, should_insert, failAt, i, results) ==
    IF i > Min(Len(sentences), Len(labs))
    THEN Reply(st, "200", results)
    ELSE LET o == process_sentence_with_label(st.map, st.kv, st.labels, sentences[i],
                                              labs[i], should_insert, i # failAt)
             st1 == State(o.map, o.kv, o.labels, st.file)
         IN  IF o.outcome = "ok"
             THEN run_labelled(st1, sentences, labs, should_insert, failAt, i + 1,
                               Append(results, o.response))
             ELSE Reply(st1, IF o.outcome = "err" THEN "500" ELSE "panic", <<>>)

\* The (vector, sentence) pairs of vectors.zip(sentences), inserted one
\* after the other from position i on; Point::from_slice panics on a vector
\* of the wrong length.  [map, ok].
RECURSIVE run_update(_, _, _, _)
run_update(m, vectors, sentences, i) ==
    IF i > Min(Len(vectors), Len(sentences))
    THEN [map |-> m, ok |-> TRUE]
    ELSE IF ~FromSliceOk(vectors[i])
    THEN [map |-> m, ok |-> FALSE]
    ELSE run_update(MapInsert(m, vectors[i], sentences[i]), vectors, sentences, i + 1)

\* main() unwrapping the result of reading the file, as /load does.
main_restart_unwrapping(st) ==
    IF MapDeserializeOk(st.file)
    THEN Reply([st EXCEPT !.map = MapDeserialize(st.file)], "200", <<>>)
    ELSE Reply(st, "panic", <<>>)

\* main() creating the two tables anew on every start.
main_restart_recreating(st) ==
    Reply([st EXCEPT !.map = IF MapDeserializeOk(st.file)
                              THEN MapDeserialize(st.file)
                              ELSE EmptyMap,
                    !.kv = EmptyTable,
                    !.labels = EmptyTable],
          "200", <<>>)

\* main(): the map restored from the file at HNSW_PATH, or built empty when
\* the file does not parse; the tables are created if they do not exist.
main_restart(st) ==
    Reply([st EXCEPT !.map = IF MapDeserializeOk(st.file)
                              THEN MapDeserialize(st.file)
                              ELSE EmptyMap],
          "200", <<>>)

\* PATCH /flush opening the file for append instead of replacing it.
flush_handler_append(st) ==
    Reply([st EXCEPT !.file = st.file \o <<MapSerialize(st.map)>>], "200", <<>>)

\* PATCH /flush
flush_handler(st) == Reply([st EXCEPT !.file = <<MapSerialize(st.map)>>], "200", <<>>)

\* load emptying the two tables as it replaces the map.
load_handler_clearing(st) ==
    IF MapDeserializeOk(st.file)
    THEN Reply(State(MapDeserialize(st.file), EmptyTable, EmptyTable, st.file), "200", <<>>)
    ELSE Reply(st, "panic", <<>>)

\* PATCH /load: a panic when the file does not parse.
load_handler(st) ==
    IF MapDeserializeOk(st.file)
    THEN Reply([st EXCEPT !.map = MapDeserialize(st.file)], "200", <<>>)
    ELSE Reply(st, "panic", <<>>)

\* PATCH /wipe: clears map.values, writes the map to the file, reads it
\* back (a panic when it does not parse), then drops and recreates the
\* tables.
wipe_handler(st) ==
    LET cleared == [st.map EXCEPT !.values = <<>>]
        written == <<MapSerialize(cleared)>>
    IN  IF MapDeserializeOk(written)
        THEN Reply(State(MapDeserialize(written), EmptyTable, EmptyTable, written), "200", <<>>)
        ELSE Reply(State(cleared, st.kv, st.labels, written), "panic", <<>>)

\* POST /search: the payload of the nearest point; a panic when the search
\* yields nothing.
search_handler(st, parsed, floats) ==
    IF ~parsed
    THEN Reply(st, "400", <<>>)
    ELSE IF /\ FromSliceOk(floats)
            /\ Len(st.map.points) > 0
            /\ SearchTakeOk(st.map, floats, 1)
    THEN Reply(st, "200", <<Response(SearchTake(st.map, floats, 1), "", <<>>, FALSE, FALSE)>>)
    ELSE Reply(st, "panic", <<>>)

\* The body of a /init or /update request, which a 200 response echoes.
Request(sentences, vectors) == [sentences |-> sentences, vectors |-> vectors]

\* POST /init keeping what the index holds and inserting the pairs into it
\* (the handler of /update registered for /init).
init_handler_incremental(st, parsed, sentences, vectors) ==
    IF ~parsed
    THEN Reply(st, "400", <<>>)
    ELSE IF /\ \A i \in 1..Len(vectors) : FromSliceOk(vectors[i])
            /\ BuildOk(vectors, sentences)
    THEN Reply([st EXCEPT !.map = [points |-> st.map.points \o vectors,
                                   values |-> st.map.values
                                                 \o SubSeq(sentences, 1, Len(vectors))]],
               "200", <<Request(sentences, vectors)>>)
    ELSE Reply(st, "panic", <<>>)

\* POST /init: the map is built from the pairs of the request and the body
\* is echoed.
init_handler(st, parsed, sentences, vectors) ==
    IF ~parsed
    THEN Reply(st, "400", <<>>)
    ELSE IF /\ \A i \in 1..Len(vectors) : FromSliceOk(vectors[i])
            /\ BuildOk(vectors, sentences)
    THEN Reply([st EXCEPT !.map = Build(vectors, sentences)], "200",
               <<Request(sentences, vectors)>>)
    ELSE Reply(st, "panic", <<>>)

\* POST /update building the map from the pairs of the request (the handler
\* of /init registered for /update).
update_handler_rebuild(st, parsed, sentences, vectors) ==
    IF ~parsed
    THEN Reply(st, "400", <<>>)
    ELSE IF /\ \A i \in 1..Len(vectors) : FromSliceOk(vectors[i])
            /\ BuildOk(vectors, sentences)
    THEN Reply([st EXCEPT !.map = Build(vectors, sentences)], "200",
               <<Request(sentences, vectors)>>)
    ELSE Reply(st, "panic", <<>>)

\* POST /update taking a body that does not parse for a request with no
\* pairs (unwrap_or_default in place of map_or_else).
update_handler_unchecked(st, parsed, sentences, vectors) ==
    LET r == IF parsed
             THEN run_update(st.map, vectors, sentences, 1)
             ELSE [map |-> st.map, ok |-> TRUE]
    IN  Reply([st EXCEPT !.map = r.map], IF r.ok THEN "200" ELSE "panic",
              IF r.ok THEN <<Request(sentences, vectors)>> ELSE <<>>)

\* POST /update: the pairs are inserted and the body is echoed.
update_handler(st, parsed, sentences, vectors) ==
    IF ~parsed
    THEN Reply(st, "400", <<>>)
    ELSE LET r == run_update(st.map, vectors, sentences, 1)
         IN  Reply([st EXCEPT !.map = r.map], IF r.ok THEN "200" ELSE "panic",
                   IF r.ok THEN <<Request(sentences, vectors)>> ELSE <<>>)

\* POST /embed putting each sentence it embeds into the map.
embed_handler_inserting(st, parsed, sentences, failAt) ==
    IF ~parsed
    THEN Reply(st, "400", <<>>)
    ELSE Reply([st EXCEPT !.map = run_update(st.map,
                                             [i \in 1..Len(sentences) |-> Embedding(sentences[i])],
                                             sentences, 1).map],
               IF failAt \in 1..Len(sentences) THEN "500" ELSE "200", <<>>)

\* POST /embed: the vectors of the sentences, or 500 when the embedding
\* fails.
embed_handler(st, parsed, sentences, failAt) ==
    IF ~parsed
    THEN Reply(st, "400", <<>>)
    ELSE Reply(st, IF failAt \in 1..Len(sentences) THEN "500" ELSE "200", <<>>)

\* POST /embed_search_insert
embed_search_insert_handler(st, parsed, should_insert, sentences, failAt) ==
    IF ~parsed
    THEN Reply(st, "400", <<>>)
    ELSE run_sentences(st, sentences, should_insert, failAt, 1, <<>>)

\* POST /embed_label_search_insert
embed_label_search_insert_handler(st, parsed, should_insert, sentences, labs, failAt) ==
    IF ~parsed
    THEN Reply(st, "400", <<>>)
    ELSE run_labelled(st, sentences, labs, should_insert, failAt, 1, <<>>)

\* ---------------------------------------------------------------- requests
SeqsUpTo(S, n) == UNION {[1..k -> S] : k \in 0..n}

\* The lists of sentences in the request bodies of the model: every list of
\* at most two sentences and, of the longer ones, those that go on
\* repeating their second sentence.
SentenceLists ==
    {l \in SeqsUpTo(Sentences, MaxBatch) : \A i \in 3..Len(l) : l[i] = l[2]}

\* The lists of labels sent with a list of sentences: one label for each
\* sentence, the same without the last label, the same with one label more.
LabelListsFor(sentences) ==
    {[i \in 1..k |-> IF i <= Len(sentences) THEN LabelOf(sentences[i]) ELSE "A"] :
        k \in {k \in {Len(sentences) - 1, Len(sentences), Len(sentences) + 1} :
                  k >= 0 /\ k <= MaxBatch}}

\* The lists of vectors sent with a list of n sentences: as many vectors,
\* one fewer or one more; every vector is Vec(3) but the last one, which is
\* any of the vectors V.
VectorListsFor(n, V) ==
    {[i \in 1..k |-> IF i < k THEN Vec(3) ELSE v] :
        k \in {k \in {n - 1, n, n + 1} : k >= 0 /\ k <= MaxBatch}, v \in V}

\* The embedding model answers every sentence (0) or fails at the last one.
EmbedOutcomes(sentences) == {0, Len(sentences)}

\* The worker threads of the HttpServer (one per core by default).
MaxWorkers == 2
Workers == 1..MaxWorkers

\* What a worker thread runs: pc is the point the handler has reached.
Task(pc, op, sentence, should_insert, vector) ==
    [pc |-> pc, op |-> op, sentence |-> sentence, should_insert |-> should_insert,
     vector |-> vector]

Idle == Task("idle", "", "", FALSE, <<>>)

\* Neither parking_lot mutex is held (0: no thread).
NoLocks == [conn |-> 0, map |-> 0]

VARIABLES
    map,      \* AppState.arc_mutex_map: the HnswMap
    kv,       \* table key_value_store
    labels,   \* table key_label_store
    file,     \* the content of the file at HNSW_PATH
    last,     \* the last request: its endpoint and the status of its response
    tasks,    \* for each worker thread, the handler it runs and where it is
    locks     \* the thread holding arc_conn and the one holding arc_mutex_map

vars == <<map, kv, labels, file, last, tasks, locks>>

Cur == State(map, kv, labels, file)

Last(op, status, should_insert) ==
    [op |-> op, status |-> status, should_insert |-> should_insert]

\* A request to endpoint op is served with reply r.
Serve(op, should_insert, r) ==
    /\ Len(r.state.map.points) <= MaxSize
    /\ map' = r.state.map
    /\ kv' = r.state.kv
    /\ labels' = r.state.labels
    /\ file' = r.state.file
    /\ last' = Last(op, r.status, should_insert)
    /\ UNCHANGED <<tasks, locks>>

\* main() on the first run: no file at HNSW_PATH, so File::create leaves
\* one with no bytes, the map is built empty and the tables are created.
Init ==
    /\ map = EmptyMap
    /\ kv = EmptyTable
    /\ labels = EmptyTable
    /\ file = <<>>
    /\ last = Last("main", "200", FALSE)
    /\ tasks = [w \in Workers |-> Idle]
    /\ locks = NoLocks

\* The process is stopped and started again with the same paths.
Restart == Serve("main", FALSE, main_restart(Cur))

flush == Serve("flush", FALSE, flush_handler(Cur))

load == Serve("load", FALSE, load_handler(Cur))

wipe == Serve("wipe", FALSE, wipe_handler(Cur))

search(parsed, floats) == Serve("search", FALSE, search_handler(Cur, parsed, floats))

init(parsed, sentences, vectors) ==
    Serve("init", FALSE, init_handler(Cur, parsed, sentences, vectors))

update(parsed, sentences, vectors) ==
    Serve("update", FALSE, update_handler(Cur, parsed, sentences, vectors))

embed(parsed, sentences, failAt) ==
    Serve("embed", FALSE, embed_handler(Cur, parsed, sentences, failAt))

embed_search_insert(parsed, should_insert, sentences, failAt) ==
    Serve("embed_search_insert", should_insert,
          embed_search_insert_handler(Cur, parsed, should_insert, sentences, failAt))

embed_label_search_insert(parsed, should_insert, sentences, labs, failAt) ==
    Serve("embed_label_search_insert", should_insert,
          embed_label_search_insert_handler(Cur, parsed, should_insert, sentences, labs,
                                            failAt))

\* The requests of the model to the endpoints that take a JSON body, the
\* vectors in the bodies of /search, /init and /update being those of V: for
\* each endpoint one body that does not parse and the bodies that do.
Requests(V) ==
    \/ search(FALSE, <<>>)
    \/ \E floats \in V : search(TRUE, floats)
    \/ init(FALSE, <<>>, <<>>)
    \/ \E sentences \in SentenceLists :
         \E vectors \in VectorListsFor(Len(sentences), V) : init(TRUE, sentences, vectors)
    \/ update(FALSE, <<>>, <<>>)
    \/ \E sentences \in SentenceLists :
         \E vectors \in VectorListsFor(Len(sentences), V) : update(TRUE, sentences, vectors)
    \/ embed(FALSE, <<>>, 0)
    \/ \E sentences \in SentenceLists :
         \E failAt \in EmbedOutcomes(sentences) : embed(TRUE, sentences, failAt)
    \/ \E should_insert \in BOOLEAN : embed_search_insert(FALSE, should_insert, <<>>, 0)
    \/ \E should_insert \in BOOLEAN, sentences \in SentenceLists :
         \E failAt \in EmbedOutcomes(sentences) :
            embed_search_insert(TRUE, should_insert, sentences, failAt)
    \/ \E should_insert \in BOOLEAN :
         embed_label_search_insert(FALSE, should_insert, <<>>, <<>>, 0)
    \/ \E should_insert \in BOOLEAN, sentences \in SentenceLists :
         \E labs \in LabelListsFor(sentences), failAt \in EmbedOutcomes(sentences) :
            embed_label_search_insert(TRUE, should_insert, sentences, labs, failAt)

\* The whole service: every endpoint, and the restart of the process.
Next ==
    \/ Restart
    \/ flush
    \/ load
    \/ wipe
    \/ Requests({Vec(3), Vec(Inf), ShortVec})

Spec == Init /\ [][Next]_vars

\* The service between two snapshots: the endpoints that take a JSON body.
\* Each request carries no item or one, so that a state is reached by the
\* shortest run of requests that leads to it; its vectors are finite.
ServeNext ==
    \/ search(FALSE, <<>>)
    \/ \E floats \in {Vec(3), ShortVec} : search(TRUE, floats)
    \/ init(FALSE, <<>>, <<>>)
    \/ \E sentences \in SeqsUpTo(Sentences, 1), vectors \in SeqsUpTo({Vec(3)}, 1) :
         init(TRUE, sentences, vectors)
    \/ update(FALSE, <<>>, <<>>)
    \/ \E s \in Sentences, v \in {Vec(3), ShortVec} : update(TRUE, <<s>>, <<v>>)
    \/ embed(FALSE, <<>>, 0)
    \/ \E s \in Sentences, failAt \in {0, 1} : embed(TRUE, <<s>>, failAt)
    \/ embed_search_insert(FALSE, TRUE, <<>>, 0)
    \/ \E should_insert \in BOOLEAN, s \in Sentences, failAt \in {0, 1} :
         embed_search_insert(TRUE, should_insert, <<s>>, failAt)
    \/ embed_label_search_insert(FALSE, TRUE, <<>>, <<>>, 0)
    \/ \E should_insert \in BOOLEAN, s \in Sentences, failAt \in {0, 1} :
         embed_label_search_insert(TRUE, should_insert, <<s>>, <<LabelOf(s)>>, failAt)

ServeSpec == Init /\ [][ServeNext]_vars

\* The pipeline alone: /embed_search_insert and /embed_label_search_insert,
\* with /update to put sentences in the index that have no cached vector.
PipelineNext ==
    \/ update(FALSE, <<>>, <<>>)
    \/ \E s \in Sentences, v \in {Vec(3), ShortVec} : update(TRUE, <<s>>, <<v>>)
    \/ embed_search_insert(FALSE, TRUE, <<>>, 0)
    \/ \E should_insert \in BOOLEAN, s \in Sentences, failAt \in {0, 1} :
         embed_search_insert(TRUE, should_insert, <<s>>, failAt)
    \/ embed_label_search_insert(FALSE, TRUE, <<>>, <<>>, 0)
    \/ \E should_insert \in BOOLEAN, s \in Sentences, failAt \in {0, 1} :
         embed_label_search_insert(TRUE, should_insert, <<s>>, <<LabelOf(s)>>, failAt)

PipelineSpec == Init /\ [][PipelineNext]_vars

\* The service with its snapshot: /flush, /load, /wipe and the restart of
\* the process, the index filled through /update and the tables through
\* /embed_label_search_insert, one item in each request.
PersistNext ==
    \/ Restart
    \/ flush
    \/ load
    \/ wipe
    \/ \E v \in {Vec(3), Vec(Inf)} : update(TRUE, <<"a">>, <<v>>)
    \/ embed_label_search_insert(TRUE, TRUE, <<"a">>, <<LabelOf("a")>>, 0)

PersistSpec == Init /\ [][PersistNext]_vars

\* The service driven by pipeline requests and /wipe alone, from the empty
\* index and the empty tables; each request carries one sentence.
PipelineWipeNext ==
    \/ wipe
    \/ \E should_insert \in BOOLEAN, s \in Sentences :
         embed_search_insert(TRUE, should_insert, <<s>>, 0)
    \/ \E should_insert \in BOOLEAN, s \in Sentences :
         embed_label_search_insert(TRUE, should_insert, <<s>>, <<LabelOf(s)>>, 0)

PipelineWipeSpec == Init /\ [][PipelineWipeNext]_vars

\* ------------------------------------------------------------ worker threads
\* The handlers of /embed_search_insert (one sentence) and /wipe running on
\* the worker threads, step by step: a step ends where the handler takes a
\* mutex or calls the embedding model.  lock() blocks the thread until the
\* mutex is free.

\* The handler on thread w returns (or unwinds): its guards are dropped.
Respond(w, status) ==
    /\ tasks' = [tasks EXCEPT ![w] = Idle]
    /\ locks' = [conn |-> IF locks.conn = w THEN 0 ELSE locks.conn,
                 map |-> IF locks.map = w THEN 0 ELSE locks.map]
    /\ last' = Last(tasks[w].op, status, tasks[w].should_insert)

\* A request to /embed_search_insert with one sentence reaches thread w.
accept_embed_search_insert(w, sentence, should_insert) ==
    /\ tasks[w].pc = "idle"
    /\ Len(map.points) <= MaxSize
    /\ tasks' = [tasks EXCEPT ![w] = Task("lock_conn", "embed_search_insert", sentence,
                                          should_insert, <<>>)]
    /\ UNCHANGED <<map, kv, labels, file, last, locks>>

\* A request to /wipe reaches thread w.
accept_wipe(w) ==
    /\ tasks[w].pc = "idle"
    /\ tasks' = [tasks EXCEPT ![w] = Task("lock_map", "wipe", "", FALSE, <<>>)]
    /\ UNCHANGED <<map, kv, labels, file, last, locks>>

\* process_sentence: data.arc_conn.lock(), kept to the end of the function,
\* and the lookup of the cached vector.
process_sentence_lock_conn(w) ==
    /\ tasks[w].pc = "lock_conn"
    /\ locks.conn = 0
    /\ locks' = [locks EXCEPT !.conn = w]
    /\ LET found == try_find_in_sqlite(kv, tasks[w].sentence)
       IN  tasks' = [tasks EXCEPT ![w].pc = IF found # <<>> THEN "search_cached" ELSE "embed",
                                  ![w].vector = IF found # <<>> THEN found[1] ELSE <<>>]
    /\ UNCHANGED <<map, kv, labels, file, last>>

\* process_sentence: session.embedding(sentence) answers, and the vector is
\* written to key_value_store when should_insert is set.
process_sentence_embedding(w) ==
    /\ tasks[w].pc = "embed"
    /\ IF tasks[w].should_insert /\ ~SqlInsertOk(kv, tasks[w].sentence)
       THEN /\ Respond(w, "500")
            /\ UNCHANGED <<map, kv, labels, file>>
       ELSE /\ tasks' = [tasks EXCEPT ![w].pc = "search_fresh",
                                      ![w].vector = Embedding(tasks[w].sentence)]
            /\ kv' = IF tasks[w].should_insert
                     THEN SqlInsert(kv, tasks[w].sentence, <<Embedding(tasks[w].sentence)>>)
                     ELSE kv
            /\ UNCHANGED <<map, labels, file, last, locks>>

\* process_sentence: search_closest_points, which takes and drops the map
\* mutex; a cache hit and a request without the flag return after it.
process_sentence_search(w) ==
    /\ tasks[w].pc \in {"search_cached", "search_fresh"}
    /\ locks.map = 0
    /\ LET sc == search_closest_points(map, tasks[w].vector, <<tasks[w].vector>>,
                                       <<tasks[w].sentence>>)
       IN  /\ map' = sc.map
           /\ IF ~sc.ok
              THEN Respond(w, "panic")
              ELSE IF tasks[w].pc = "search_fresh" /\ tasks[w].should_insert
              THEN /\ tasks' = [tasks EXCEPT ![w].pc = "insert"]
                   /\ UNCHANGED <<last, locks>>
              ELSE Respond(w, "200")
    /\ UNCHANGED <<kv, labels, file>>

\* process_sentence: insert_if_needed, which takes the map mutex again, and
\* the return.
process_sentence_insert(w) ==
    /\ tasks[w].pc = "insert"
    /\ locks.map = 0
    /\ map' = insert_if_needed(map, tasks[w].vector, tasks[w].sentence)
    /\ Respond(w, "200")
    /\ UNCHANGED <<kv, labels, file>>

\* wipe: data.arc_mutex_map.lock(), kept to the end of the handler; the
\* values are cleared, the map is written to the file and read back.
wipe_lock_map(w) ==
    /\ tasks[w].pc = "lock_map"
    /\ locks.map = 0
    /\ LET cleared == [map EXCEPT !.values = <<>>]
           written == <<MapSerialize(cleared)>>
       IN  /\ file' = written
           /\ IF MapDeserializeOk(written)
              THEN /\ map' = MapDeserialize(written)
                   /\ tasks' = [tasks EXCEPT ![w].pc = "wipe_lock_conn"]
                   /\ locks' = [locks EXCEPT !.map = w]
                   /\ UNCHANGED last
              ELSE /\ map' = cleared
                   /\ Respond(w, "panic")
    /\ UNCHANGED <<kv, labels>>

\* wipe: data.arc_conn.lock() with the map mutex held, the tables dropped
\* and created again, and the return.
wipe_lock_conn(w) ==
    /\ tasks[w].pc = "wipe_lock_conn"
    /\ locks.conn = 0
    /\ kv' = EmptyTable
    /\ labels' = EmptyTable
    /\ Respond(w, "200")
    /\ UNCHANGED <<map, file>>

\* One step of the handler that thread w runs.
Step(w) ==
    \/ process_sentence_lock_conn(w)
    \/ process_sentence_embedding(w)
    \/ process_sentence_search(w)
    \/ process_sentence_insert(w)
    \/ wipe_lock_map(w)
    \/ wipe_lock_conn(w)

WorkersNext ==
    \E w \in Workers :
        \/ \E sentence \in Sentences, should_insert \in BOOLEAN :
              accept_embed_search_insert(w, sentence, should_insert)
        \/ accept_wipe(w)
        \/ Step(w)

WorkersSpec == Init /\ [][WorkersNext]_vars

\* The threads are scheduled, the embedding model answers, and a
\* parking_lot mutex is handed to a thread that keeps waiting for it
\* (eventual fairness): a step that is possible again and again is taken.
WorkersFairSpec == WorkersSpec /\ \A w \in Workers : SF_vars(Step(w))

\* update on thread w: data.arc_mutex_map.lock() is taken after the body
\* has parsed and kept to the end of the handler, which touches nothing
\* but the map.
update_locked(w, sentence, vector) ==
    /\ tasks[w].pc = "idle"
    /\ locks.map = 0
    /\ LET r == update_handler(Cur, TRUE, <<sentence>>, <<vector>>)
       IN  /\ Len(r.state.map.points) <= MaxSize
           /\ map' = r.state.map
           /\ last' = Last("update", r.status, FALSE)
    /\ UNCHANGED <<kv, labels, file, tasks, locks>>

\* The worker threads serving /embed_search_insert requests that carry the
\* should_insert flag, /wipe and /update.
DuplicatesNext ==
    \E w \in Workers :
        \/ \E sentence \in Sentences : accept_embed_search_insert(w, sentence, TRUE)
        \/ process_sentence_lock_conn(w)
        \/ process_sentence_embedding(w)
        \/ process_sentence_search(w)
        \/ process_sentence_insert(w)
        \/ accept_wipe(w)
        \/ wipe_lock_map(w)
        \/ wipe_lock_conn(w)
        \/ update_locked(w, "a", Vec(3))

DuplicatesSpec == Init /\ [][DuplicatesNext]_vars

\* ------------------------------------------------------------------ claims
\* The neighbours the legacy /embed_search_insert keeps (take(5)).
UNLABELLED_K == 5

\* The handler answers 400 and leaves the whole state as it is.
Rejected(r) == r.status = "400" /\ r.state = Cur

PipelineOps == {"embed_search_insert", "embed_label_search_insert"}

\* C1 (insertion gate): with should_insert set and an index that is not
\* empty, a sentence with no cached vector whose nearest entry lies at
\* distance <= 0.002 leaves the index unchanged and gets its vector row
\* written, on both pipeline endpoints.
C1_InsertionGate ==
    \A s \in Sentences :
        (/\ Len(map.values) > 0
         /\ SearchTakeOk(map, Embedding(s), 1)
         /\ kv[s] = NoRows
         /\ SearchTake(map, Embedding(s), 1)[1].distance <= INSERT_THRESHOLD)
        => LET r == embed_search_insert_handler(Cur, TRUE, TRUE, <<s>>, 0)
               rl == embed_label_search_insert_handler(Cur, TRUE, TRUE, <<s>>,
                                                       <<LabelOf(s)>>, 0)
           IN  /\ r.state.map = map
               /\ r.state.kv[s] # NoRows
               /\ rl.state.map = map
               /\ rl.state.kv[s] # NoRows

\* One label for each sentence.
LabelsFor(sentences) == [i \in 1..Len(sentences) |-> LabelOf(sentences[i])]

CacheHitReply(r) ==
    /\ r.status = "200"
    /\ r.results[1].insertion = "already exists"
    /\ ~r.results[1].embedded
    /\ r.state.kv = kv
    /\ r.state.labels = labels
    /\ (Len(map.values) > 0 => r.state.map = map)

\* C3 (cache hit): for a sentence with a row in key_value_store, a pipeline
\* request, labelled or not, with or without should_insert, reports
\* "already exists", does not run the embedding, writes no row and adds no
\* entry to an index that is not empty.
C3_CacheHit ==
    \A s \in Sentences :
        kv[s] # NoRows =>
            \A should_insert \in BOOLEAN :
                /\ CacheHitReply(embed_search_insert_handler(Cur, TRUE, should_insert,
                                                             <<s>>, 0))
                /\ CacheHitReply(embed_label_search_insert_handler(
                                     Cur, TRUE, should_insert, <<s>>, <<LabelOf(s)>>, 0))

\* Two successive /embed_search_insert requests for sentence s with
\* should_insert set: the replies to the first and to the second.
FirstCall(s) == embed_search_insert_handler(Cur, TRUE, TRUE, <<s>>, 0)
SecondCall(s) == embed_search_insert_handler(FirstCall(s).state, TRUE, TRUE, <<s>>, 0)

\* C4 (cache idempotence, as claimed): the two calls return identical
\* searchResult lists, at most one reports "success", and the second
\* reports "already exists" or "no insert".
C4_CacheIdempotence ==
    \A s \in Sentences :
        LET r1 == FirstCall(s)
            r2 == SecondCall(s)
        IN  (r1.status = "200" /\ r2.status = "200") =>
                /\ r1.results[1].searchResult = r2.results[1].searchResult
                /\ ~(/\ r1.results[1].insertion = "success"
                     /\ r2.results[1].insertion = "success")
                /\ r2.results[1].insertion \in {"already exists", "no insert"}

\* C4 (cache idempotence, as amended): when both calls are answered 200,
\* the second reports "already exists", runs no embedding, inserts nothing
\* and changes nothing, so at most one of the two reports an insertion; the
\* searchResult lists are identical when the sentence had a cached vector
\* before the first call.  The second call is answered 200 whenever the
\* first is and the index pairs every point with a payload.
C4_CacheIdempotenceAmended ==
    \A s \in Sentences :
        LET r1 == FirstCall(s)
            r2 == SecondCall(s)
        IN  /\ (r1.status = "200" /\ Len(map.points) = Len(map.values))
                   => r2.status = "200"
            /\ (r1.status = "200" /\ r2.status = "200") =>
                   /\ r2.results[1].insertion = "already exists"
                   /\ ~r2.results[1].embedded
                   /\ ~r2.results[1].inserted
                   /\ r2.state = r1.state
                   /\ (kv[s] # NoRows =>
                          r1.results[1].searchResult = r2.results[1].searchResult)

\* /embed_search_insert with should_insert has just been answered 200 for a
\* sentence it cached and inserted, and a second call for it is a cache hit.
C4_Witness ==
    /\ last.op = "embed_search_insert"
    /\ last.should_insert
    /\ last.status = "200"
    /\ \E s \in Sentences :
          /\ kv[s] # NoRows
          /\ \E i \in 1..Len(map.values) : map.values[i] = s
          /\ FirstCall(s).status = "200"
          /\ FirstCall(s).results[1].insertion = "already exists"

\* C5 (wipe totality): once /wipe has completed the index holds no point
\* and no payload, no sentence has a row in either table, the snapshot file
\* restores to an empty index, and a following /update or pipeline insert
\* leaves the index it would leave on a freshly built empty one.
C5_WipeTotality ==
    (last.op = "wipe" /\ last.status = "200") =>
        /\ map = EmptyMap
        /\ \A s \in Sentences :
              /\ try_find_in_sqlite(kv, s) = <<>>
              /\ try_find_label_in_sqlite(kv, labels, s) = <<>>
        /\ main_restart(Cur).state.map = EmptyMap
        /\ \A s \in Sentences :
              LET fresh == State(EmptyMap, EmptyTable, EmptyTable, file)
              IN  /\ update_handler(Cur, TRUE, <<s>>, <<Vec(3)>>).state.map
                        = update_handler(fresh, TRUE, <<s>>, <<Vec(3)>>).state.map
                  /\ embed_search_insert_handler(Cur, TRUE, TRUE, <<s>>, 0).state.map
                        = embed_search_insert_handler(fresh, TRUE, TRUE, <<s>>, 0).state.map

\* Every component of every point of the index is finite.
AllFinite(m) == \A i \in 1..Len(m.points) : \A j \in 1..D : IsFinite(m.points[i][j])

\* C6 (snapshot round-trip): /flush followed by /load leaves the in-memory
\* index equal to the index I it was before the /flush, points and
\* payloads, whatever I is; /load is answered 200 when every component of I
\* is finite.
C6_SnapshotRoundTrip ==
    LET flushed == flush_handler(Cur)
        loaded == load_handler(flushed.state)
    IN  /\ flushed.status = "200"
        /\ loaded.state.map = map
        /\ (AllFinite(map) => loaded.status = "200")

\* /load has been answered 200 on the file /flush wrote of an index with
\* entries, and the index in memory is the one /flush wrote.
C6_Witness ==
    /\ last.op = "load"
    /\ last.status = "200"
    /\ Len(map.values) > 0
    /\ file = <<MapSerialize(map)>>

\* C7 (restart durability): a restart right after a completed /flush or
\* /wipe leaves the in-memory index equal to the index at that /flush or
\* /wipe, /search finds every entry that was present at the /flush, and
\* every row of the two tables is still there.
C7_RestartDurability ==
    LET flushed == flush_handler(Cur)
        restarted == main_restart(flushed.state)
        wiped == wipe_handler(Cur)
    IN  /\ flushed.status = "200" =>
              /\ restarted.state.map = map
              /\ restarted.state.kv = kv
              /\ restarted.state.labels = labels
              /\ Len(map.points) = Len(map.values) =>
                    \A i \in 1..Len(map.points) :
                        search_handler(restarted.state, TRUE, map.points[i]).status = "200"
        /\ wiped.status = "200" =>
              main_restart(wiped.state).state = wiped.state

\* C8 (malformed JSON): a body that does not parse is answered 400 by
\* /search, /init, /update, /embed, /embed_search_insert and
\* /embed_label_search_insert, and the index, the tables and the snapshot
\* file stay as they are.
C8_MalformedJson ==
    /\ Rejected(search_handler(Cur, FALSE, <<>>))
    /\ Rejected(init_handler(Cur, FALSE, <<>>, <<>>))
    /\ Rejected(update_handler(Cur, FALSE, <<>>, <<>>))
    /\ Rejected(embed_handler(Cur, FALSE, <<>>, 0))
    /\ \A should_insert \in BOOLEAN :
          /\ Rejected(embed_search_insert_handler(Cur, FALSE, should_insert, <<>>, 0))
          /\ Rejected(embed_label_search_insert_handler(Cur, FALSE, should_insert,
                                                        <<>>, <<>>, 0))

\* A body that did not parse has been answered 400 while the index and the
\* two tables hold data.
C8_Witness ==
    /\ last.status = "400"
    /\ Len(map.values) > 0
    /\ \E s \in Sentences : kv[s] # NoRows /\ labels[s] # NoRows

\* C9 (wrong vector length): a /search, /init or /update request with a
\* vector whose length is not D is answered 400 and changes nothing; /update
\* inserts none of its pairs.
C9_WrongVectorLength ==
    /\ Rejected(search_handler(Cur, TRUE, ShortVec))
    /\ \A sentences \in SentenceLists :
          \A vectors \in VectorListsFor(Len(sentences), {ShortVec}) :
              Len(vectors) = Len(sentences) =>
                  /\ Rejected(init_handler(Cur, TRUE, sentences, vectors))
                  /\ Rejected(update_handler(Cur, TRUE, sentences, vectors))

\* C10 (length mismatch): a request whose sentences and vectors (/init,
\* /update) or sentences and labels (/embed_label_search_insert) differ in
\* length is answered 400 and processes none of its items.
C10_LengthMismatch ==
    \A sentences \in SentenceLists :
        /\ \A vectors \in VectorListsFor(Len(sentences), {Vec(3)}) :
              Len(vectors) # Len(sentences) =>
                  /\ Rejected(init_handler(Cur, TRUE, sentences, vectors))
                  /\ Rejected(update_handler(Cur, TRUE, sentences, vectors))
        /\ \A labs \in LabelListsFor(sentences), should_insert \in BOOLEAN :
              Len(labs) # Len(sentences) =>
                  Rejected(embed_label_search_insert_handler(Cur, TRUE, should_insert,
                                                             sentences, labs, 0))

\* C11 (empty search): /search with a vector of D components on an index
\* with no payload (fresh start, after /wipe, after /init with no pair) is
\* answered 200 and changes no state.
C11_EmptySearch ==
    Len(map.values) = 0 =>
        LET r == search_handler(Cur, TRUE, Vec(3))
        IN  r.status = "200" /\ r.state = Cur

\* C12 (reflexive proximity): once /update has inserted (v, s), on an index
\* that is empty, not empty or was wiped earlier, and no entry sits at v
\* already, /search with v is answered with payload s at distance 0.
C12_ReflexiveProximity ==
    \A s \in Sentences, v \in {Vec(3), Vec(5)} :
        LET updated == update_handler(Cur, TRUE, <<s>>, <<v>>)
            found == search_handler(updated.state, TRUE, v)
        IN  (/\ updated.status = "200"
             /\ \A i \in 1..Len(map.points) : map.points[i] # v)
            => /\ found.status = "200"
               /\ found.results[1].searchResult = <<s>>
               /\ found.results[1].searchDistance = <<0>>

\* The requests of /init and /update with n well-formed pairs: as many
\* vectors as sentences, each vector of D components.
WellFormedPairs ==
    {q \in UNION {{Request(sentences, vectors) :
                      vectors \in VectorListsFor(Len(sentences), {Vec(3), Vec(5), Vec(Inf)})} :
                  sentences \in SentenceLists} :
        Len(q.vectors) = Len(q.sentences)}

\* C13 (/init rebuilds from scratch): /init with n well-formed pairs is
\* answered 200 with the request body, and the index then holds exactly the
\* n pairs of the request, whatever it held before; tables and file are
\* left alone.
C13_InitRebuilds ==
    \A q \in WellFormedPairs :
        LET r == init_handler(Cur, TRUE, q.sentences, q.vectors)
        IN  /\ r.status = "200"
            /\ r.results = <<q>>
            /\ r.state = [Cur EXCEPT !.map = [points |-> q.vectors, values |-> q.sentences]]

\* /init was answered 200 and the index holds one pair, while rows written
\* before the /init are still in the vector table.
C13_Witness ==
    /\ last.op = "init"
    /\ last.status = "200"
    /\ Len(map.values) = 1
    /\ Len(map.points) = 1
    /\ \E s \in Sentences : kv[s] # NoRows

\* C14 (/update is incremental): /update with n well-formed pairs is
\* answered 200, the index has n points and n payloads more, every point and
\* payload it held stays where it was, and this also on the index built
\* empty.
C14_UpdateIncremental ==
    \A q \in WellFormedPairs :
        LET r == update_handler(Cur, TRUE, q.sentences, q.vectors)
            n == Len(q.sentences)
        IN  /\ r.status = "200"
            /\ Len(r.state.map.values) = Len(map.values) + n
            /\ Len(r.state.map.points) = Len(map.points) + n
            /\ SubSeq(r.state.map.values, 1, Len(map.values)) = map.values
            /\ SubSeq(r.state.map.points, 1, Len(map.points)) = map.points
            /\ \A i \in 1..n :
                  /\ r.state.map.values[Len(map.values) + i] = q.sentences[i]
                  /\ r.state.map.points[Len(map.points) + i] = q.vectors[i]
            /\ r.state = [Cur EXCEPT !.map = r.state.map]

\* /update was answered 200 on an index that held an entry already.
C14_Witness ==
    /\ last.op = "update"
    /\ last.status = "200"
    /\ Len(map.values) = 2
    /\ Len(map.points) = 2

\* C15 (/embed has no side effect): whatever the body and whether the
\* embedding succeeds or fails, /embed leaves index, tables and file as they
\* were.
C15_EmbedNoSideEffect ==
    \A parsed \in BOOLEAN, sentences \in SentenceLists :
        \A failAt \in 0..Len(sentences) :
            embed_handler(Cur, parsed, sentences, failAt).state = Cur

\* /embed was answered 500 (the embedding failed) while the index and the
\* vector table were not empty.
C15_Witness ==
    /\ last.op = "embed"
    /\ last.status = "500"
    /\ Len(map.values) > 0
    /\ \E s \in Sentences : kv[s] # NoRows

\* C16 (bulk semantics): when processing sentence i of a pipeline request
\* fails, the response is 500 and carries no per-sentence result, and the
\* state is the one the sentences up to i leave (no later sentence is
\* processed).
C16_BulkSemantics ==
    \A should_insert \in BOOLEAN, sentences \in SentenceLists :
        \A failAt \in 1..Len(sentences) :
            LET r == embed_search_insert_handler(Cur, TRUE, should_insert, sentences, failAt)
                upto == SubSeq(sentences, 1, failAt)
                cut == embed_search_insert_handler(Cur, TRUE, should_insert, upto, failAt)
            IN  r.status # "200" =>
                    /\ r.status = "500"
                    /\ r.results = <<>>
                    /\ r.state = cut.state

C18_LoadFailureContained ==
    ~MapDeserializeOk(file) =>
        LET r == load_handler(Cur)
        IN  r.status = "500" /\ r.state = Cur

\* The insertion strings the record of a per-sentence result allows.
InsertionStrings == {"success", "no insert", "already exists", "found in sqlite"}

\* C19 (insertion field): every per-sentence result of the two pipeline
\* endpoints carries one of the four insertion strings.
C19_InsertionField ==
    \A should_insert \in BOOLEAN, s \in Sentences :
        LET u == embed_search_insert_handler(Cur, TRUE, should_insert, <<s>>, 0)
            l == embed_label_search_insert_handler(Cur, TRUE, should_insert, <<s>>,
                                                   <<LabelOf(s)>>, 0)
        IN  /\ u.status = "200" => u.results[1].insertion \in InsertionStrings
            /\ l.status = "200" => l.results[1].insertion \in InsertionStrings

\* The state after /init with one pair more than the unlabelled endpoint
\* is to list: the points Vec(1), Vec(2), ... with alternating payloads.
IndexOfSix(st) ==
    init_handler(st, TRUE,
                 [i \in 1..(UNLABELLED_K + 1) |-> IF i % 2 = 1 THEN "a" ELSE "b"],
                 [i \in 1..(UNLABELLED_K + 1) |-> Vec(i)]).state

\* The reply is 200 and its one result lists k neighbours, payloads and
\* distances alike, in ascending order of distance.
ListsNeighbours(r, k) ==
    /\ r.status = "200"
    /\ Len(r.results[1].searchResult) = k
    /\ Len(r.results[1].searchDistance) = k
    /\ \A i \in 1..(Len(r.results[1].searchDistance) - 1) :
          r.results[1].searchDistance[i] <= r.results[1].searchDistance[i + 1]

\* C20 (neighbour count): on an index of size entries the unlabelled
\* endpoint lists min(5, size) neighbours and the labelled endpoint
\* min(15, size), both in ascending order of distance; checked on the
\* current index and on an index of six entries.
C20_NeighbourCount ==
    \A s \in Sentences, st \in {Cur, IndexOfSix(Cur)} :
        Len(st.map.values) > 0 =>
            /\ ListsNeighbours(embed_search_insert_handler(st, TRUE, FALSE, <<s>>, 0),
                               Min(UNLABELLED_K, Len(st.map.values)))
            /\ ListsNeighbours(embed_label_search_insert_handler(st, TRUE, FALSE, <<s>>,
                                                                 <<LabelOf(s)>>, 0),
                               Min(TakeCount, Len(st.map.values)))

\* The rows of label_store for the neighbours, concatenated in the order of
\* the neighbours; a neighbour without a row contributes nothing.
RECURSIVE FanOut(_, _)
FanOut(lt, neighbours) ==
    IF neighbours = <<>>
    THEN <<>>
    ELSE lt[Head(neighbours)] \o FanOut(lt, Tail(neighbours))

\* C21 (label fan-out): the labels of a labelled result, cache hit or
\* fresh, are the rows of label_store of the returned neighbours, in
\* neighbour order with duplicates kept.
C21_LabelFanOut ==
    \A should_insert \in BOOLEAN, s \in Sentences :
        LET r == embed_label_search_insert_handler(Cur, TRUE, should_insert, <<s>>,
                                                   <<LabelOf(s)>>, 0)
        IN  r.status = "200" =>
                r.results[1].labels = FanOut(r.state.labels, r.results[1].searchResult)

\* Thread w is blocked in lock() on the connection mutex, on the map mutex.
WaitsForConn(w) ==
    /\ tasks[w].pc \in {"lock_conn", "wipe_lock_conn"}
    /\ locks.conn \notin {0, w}

WaitsForMap(w) ==
    /\ tasks[w].pc \in {"lock_map", "search_cached", "search_fresh", "insert"}
    /\ locks.map \notin {0, w}

\* C22 (lock order): no reachable state has one handler holding the map
\* mutex and waiting for the connection mutex while another holds the
\* connection mutex and waits for the map mutex.
C22_LockOrder ==
    ~ \E w1 \in Workers, w2 \in Workers :
        /\ locks.map = w1
        /\ WaitsForConn(w1)
        /\ locks.conn = w2
        /\ WaitsForMap(w2)

\* C23 (no store lock across the embedding): while a handler is calling the
\* embedding model it does not hold the connection mutex.
C23_NoLockAcrossEmbedding ==
    \A w \in Workers : tasks[w].pc = "embed" => locks.conn # w

\* C24 (progress): every request that reached a worker thread is answered
\* in the end, given that the threads are scheduled and the embedding model
\* answers.
C24_Progress ==
    \A w \in Workers : (tasks[w].pc # "idle") ~> (tasks[w].pc = "idle")

\* C25 (cold-start bootstrap): a pipeline request for sentence s on an
\* index without entries leaves exactly the one entry (v, s), returns no
\* neighbour, and reports "success" (fresh) or "already exists" (cache hit).
C25_ColdStartBootstrap ==
    Len(map.values) = 0 =>
        \A should_insert \in BOOLEAN, s \in Sentences :
            LET r == embed_search_insert_handler(Cur, TRUE, should_insert, <<s>>, 0)
                v == IF kv[s] # NoRows THEN kv[s][1][1] ELSE Embedding(s)
            IN  r.status = "200" =>
                    /\ r.state.map = Build(<<v>>, <<s>>)
                    /\ r.results[1].searchResult = <<>>
                    /\ r.results[1].insertion =
                           (IF kv[s] # NoRows THEN "already exists" ELSE "success")

\* C26 (sentence uniqueness): in every state reached from the empty index
\* and the empty tables by pipeline requests and /wipe, no two entries of
\* the index carry the same sentence.
C26_SentenceUniqueness ==
    \A i \in 1..Len(map.values), j \in 1..Len(map.values) :
        map.values[i] = map.values[j] => i = j

\* A sentence is in the index: some entry carries it.
Indexed(m, s) == \E i \in 1..Len(m.values) : m.values[i] = s

\* C27 (residual repair): for a sentence with a row in key_value_store and
\* no entry in a non-empty index, the next pipeline request for it with
\* should_insert puts it into the index.
C27_ResidualRepair ==
    \A s \in Sentences :
        (kv[s] # NoRows /\ Len(map.values) > 0 /\ ~Indexed(map, s)) =>
            LET r == embed_search_insert_handler(Cur, TRUE, TRUE, <<s>>, 0)
            IN  Indexed(r.state.map, s)

\* A pipeline request, labelled or not, leaves every indexed sentence
\* indexed.
StaysIndexed ==
    \A should_insert \in BOOLEAN, s \in Sentences, x \in Sentences :
        LET u == embed_search_insert_handler(Cur, TRUE, should_insert, <<s>>, 0)
            l == embed_label_search_insert_handler(Cur, TRUE, should_insert, <<s>>,
                                                   <<LabelOf(s)>>, 0)
        IN  Indexed(map, x) => Indexed(u.state.map, x) /\ Indexed(l.state.map, x)

\* C28 (entry state machine), as claimed: in every state reached by
\* pipeline requests and /wipe a sentence in the index has a row in
\* key_value_store, and a further pipeline request leaves every indexed
\* sentence indexed.
C28_EntryStateMachine ==
    /\ \A s \in Sentences : Indexed(map, s) => kv[s] # NoRows
    /\ StaysIndexed

\* C28, amended: every entry of the index but the first, the one a request
\* took to build the empty index, carries a sentence with a row in
\* key_value_store, and a further pipeline request leaves every indexed
\* sentence indexed.
C28_EntryStateMachineAmended ==
    /\ \A i \in 2..Len(map.values) : kv[map.values[i]] # NoRows
    /\ StaysIndexed

\* A request without the flag has built the index from a sentence that has
\* no row, and a request with the flag has then inserted one that has.
C28_Witness ==
    /\ last.op \in {"embed_search_insert", "embed_label_search_insert"}
    /\ last.should_insert
    /\ last.status = "200"
    /\ Len(map.values) = 2
    /\ kv[map.values[1]] = NoRows
    /\ kv[map.values[2]] # NoRows

\* Every row that the tables of st hold is in the tables of the reply's
\* state, with the same value.
RowsKept(st, r) ==
    \A s \in Sentences :
        /\ st.kv[s] # NoRows => r.state.kv[s] = st.kv[s]
        /\ st.labels[s] # NoRows => r.state.labels[s] = st.labels[s]

\* C29 (metadata monotonicity): no operation other than /wipe (the restart
\* of the process included) deletes or changes a row of key_value_store or
\* key_label_store.
C29_MetadataMonotonicity ==
    /\ RowsKept(Cur, main_restart(Cur))
    /\ RowsKept(Cur, flush_handler(Cur))
    /\ RowsKept(Cur, load_handler(Cur))
    /\ RowsKept(Cur, search_handler(Cur, TRUE, Vec(3)))
    /\ \A s \in Sentences, v \in {Vec(3), Vec(Inf)} :
          /\ RowsKept(Cur, init_handler(Cur, TRUE, <<s>>, <<v>>))
          /\ RowsKept(Cur, update_handler(Cur, TRUE, <<s>>, <<v>>))
    /\ \A sentences \in {<<"a">>, <<"b">>, <<"a", "b">>}, should_insert \in BOOLEAN :
          /\ RowsKept(Cur, embed_handler(Cur, TRUE, sentences, 0))
          /\ \A failAt \in EmbedOutcomes(sentences) :
                RowsKept(Cur, embed_search_insert_handler(Cur, TRUE, should_insert,
                                                          sentences, failAt))
          /\ \A labs \in {LabelsFor(sentences), [i \in 1..Len(sentences) |-> "Z"]} :
                RowsKept(Cur, embed_label_search_insert_handler(Cur, TRUE, should_insert,
                                                                sentences, labs, 0))

\* A labelled request with the flag was answered 500 because the sentence
\* had its vector row already: the row is still there, next to the label
\* row the request wrote.
C29_Witness ==
    /\ last.op = "embed_label_search_insert"
    /\ last.should_insert
    /\ last.status = "500"
    /\ \E s \in Sentences : kv[s] = <<<<Embedding(s)>>>> /\ labels[s] = <<LabelOf(s)>>

\* C30 (write-back is an upsert): a labelled request with should_insert for
\* a sentence that has a vector row and no label row succeeds.
C30_WriteBackUpsert ==
    \A s \in Sentences :
        (kv[s] # NoRows /\ labels[s] = NoRows) =>
            embed_label_search_insert_handler(Cur, TRUE, TRUE, <<s>>, <<LabelOf(s)>>,
                                              0).status = "200"

\* C31 (dimension conservation in the store): every row of key_value_store
\* holds a vector of D components, and an embedding of another length
\* fails the sentence with nothing written to the tables or the index.
C31_DimensionConservation ==
    /\ \A s \in Sentences : kv[s] # NoRows => Len(kv[s][1][1]) = D
    /\ \A should_insert \in BOOLEAN, s \in Sentences :
          kv[s] = NoRows =>
              LET o == process_sentence_embedded(map, kv, labels, s, should_insert,
                                                 <<ShortVec>>, TRUE)
              IN  /\ o.outcome # "ok"
                  /\ o.kv = kv
                  /\ o.labels = labels
                  /\ o.map = map

\* C32 (index failure leaves no dangling cache entry): when the insertion
\* of the sentence into the index fails, the sentence fails with an error
\* (answered 500) and has no row in either table afterwards.
C32_NoDanglingCacheEntry ==
    \A s \in Sentences :
        kv[s] = NoRows =>
            LET o == process_sentence_embedded(map, kv, labels, s, TRUE,
                                               <<Embedding(s)>>, FALSE)
            IN  /\ o.outcome = "err"
                /\ o.kv[s] = NoRows
                /\ o.labels[s] = labels[s]

\* C33 (embedding failure): when the embedding model fails for a sentence
\* the request is answered 500 and the tables and the index are as before.
C33_EmbeddingFailure ==
    \A should_insert \in BOOLEAN, s \in Sentences :
        kv[s] = NoRows =>
            LET r == embed_search_insert_handler(Cur, TRUE, should_insert, <<s>>, 1)
            IN  /\ r.status = "500"
                /\ r.state = Cur

\* C34 (startup restore): the start of the process never fails; it leaves
\* the tables and the file as they are; the index is the one the file
\* holds when the file parses (it serializes back to the file's content)
\* and the empty index when the file is empty or does not parse.
C34_StartupRestore ==
    LET r == main_restart(Cur)
    IN  /\ r.status = "200"
        /\ r.state.kv = kv
        /\ r.state.labels = labels
        /\ r.state.file = file
        /\ MapDeserializeOk(file) => <<MapSerialize(r.state.map)>> = file
        /\ ~MapDeserializeOk(file) => r.state.map = EmptyMap

\* The process was started again and has restored an index that is not
\* empty, next to a table that holds a row; before the first /flush a start
\* finds a file with no bytes.
C34_Witness ==
    /\ last.op = "main"
    /\ last.status = "200"
    /\ Len(map.values) > 0
    /\ <<MapSerialize(map)>> = file
    /\ \E s \in Sentences : kv[s] # NoRows

\* C35 (snapshot file validity): the file at HNSW_PATH, which exists from
\* the first start on, always holds a complete serialization of an index,
\* so that /load restores from it.
C35_SnapshotFileValidity ==
    /\ MapDeserializeOk(file)
    /\ load_handler(Cur).status = "200"

\* C36 (gate atomicity): while a pipeline request is between its search
\* and its insertion, no step of another handler changes the index.
C36_GateAtomicity ==
    [][\A w \in Workers :
          (tasks[w].pc = "insert" /\ tasks'[w].pc = "insert") => map' = map]_vars

\* The points of process_sentence after a cache miss.
FreshPath == {"embed", "search_fresh", "insert"}

\* C37 (concurrent duplicates): of two requests with should_insert in
\* flight for the same sentence at most one is on the path that embeds,
\* writes the row and inserts; a request past the write has left the
\* sentence's row; a request that found the row goes on to the search
\* alone; and no request is answered with a failure.
C37_ConcurrentDuplicates ==
    /\ \A w1 \in Workers, w2 \in Workers :
          (/\ w1 # w2
           /\ tasks[w1].pc # "idle"
           /\ tasks[w1].sentence = tasks[w2].sentence)
          => ~(tasks[w1].pc \in FreshPath /\ tasks[w2].pc \in FreshPath)
    /\ \A w \in Workers :
          /\ tasks[w].pc \in {"search_fresh", "insert"} =>
                kv[tasks[w].sentence] = <<<<Embedding(tasks[w].sentence)>>>>
          /\ tasks[w].pc = "search_cached" =>
                /\ kv[tasks[w].sentence] # NoRows
                /\ tasks[w].vector = kv[tasks[w].sentence][1][1]
    /\ last.op = "embed_search_insert" => last.status = "200"

\* C38 (write-back atomicity): a labelled request with should_insert for
\* one sentence writes the label row of the sentence exactly when it
\* writes its vector row, and when it is answered 500 the sentence has no
\* label row without a vector row.
C38_WriteBackAtomicity ==
    \A s \in Sentences :
        LET r == embed_label_search_insert_handler(Cur, TRUE, TRUE, <<s>>, <<LabelOf(s)>>, 0)
        IN  /\ (r.state.labels[s] # labels[s]) <=> (r.state.kv[s] # kv[s])
            /\ r.status = "500" => (r.state.labels[s] # NoRows => r.state.kv[s] # NoRows)

\* C39 (truthful insertion field): the result of a sentence says "success"
\* or "inserted" exactly when processing the sentence added an entry to
\* the index.
C39_TruthfulInsertion ==
    \A should_insert \in BOOLEAN, s \in Sentences :
        LET r == embed_search_insert_handler(Cur, TRUE, should_insert, <<s>>, 0)
        IN  r.status = "200" =>
                (r.results[1].insertion \in {"success", "inserted"}
                 <=> Len(r.state.map.values) > Len(map.values))

\* The bodies of the /init and /update requests of the frame check: lists
\* of equal and of different lengths, a vector that is too short and one
\* with a non-finite component.
FrameSentences == {<<>>, <<"a">>, <<"a", "b">>}

FrameVectors == {<<>>, <<Vec(3)>>, <<ShortVec>>, <<Vec(Inf)>>}

\* What a handler leaves of the tables and of the file.
KeepsTables(r) == r.state.kv = kv /\ r.state.labels = labels

KeepsFile(r) == r.state.file = file

\* C40 (frame of the non-pipeline endpoints): /search and /flush leave the
\* index as it is; /search, /init, /update, /flush and /load leave both
\* tables as they are; /search, /init, /update and /load leave the file
\* as it is.
C40_Frame ==
    /\ \A parsed \in BOOLEAN, floats \in {Vec(3), ShortVec} :
          search_handler(Cur, parsed, floats).state = Cur
    /\ flush_handler(Cur).state.map = map
    /\ KeepsTables(flush_handler(Cur))
    /\ KeepsTables(load_handler(Cur))
    /\ KeepsFile(load_handler(Cur))
    /\ \A parsed \in BOOLEAN, sentences \in FrameSentences, vectors \in FrameVectors :
          /\ KeepsTables(init_handler(Cur, parsed, sentences, vectors))
          /\ KeepsFile(init_handler(Cur, parsed, sentences, vectors))
          /\ KeepsTables(update_handler(Cur, parsed, sentences, vectors))
          /\ KeepsFile(update_handler(Cur, parsed, sentences, vectors))

\* /load has just restored a non-empty index while both tables hold the
\* rows of a sentence.
C40_Witness ==
    /\ last.op = "load"
    /\ last.status = "200"
    /\ Len(map.values) > 0
    /\ \E s \in Sentences : kv[s] # NoRows /\ labels[s] # NoRows

====
